---- MODULE Spec2Model ----
(***************************************************************************)
(* Chaum-Pedersen zero-knowledge proof primitives (src/src/lib.rs) and the *)
(* gRPC authentication service skeleton (src/src/server.rs).               *)
(*                                                                         *)
(* BigUint values are modelled as naturals.  An operation that panics      *)
(* (unsigned subtraction underflow, modpow with a zero modulus, todo!())   *)
(* yields Abort, and Abort propagates through every later operation of     *)
(* the same call, as unwinding does.                                       *)
(***************************************************************************)
EXTENDS Integers, Sequences, FiniteSets, TLC

VARIABLES zkp, call, t, log

vars == <<zkp, call, t, log>>

(***************************************************************************)
(* Bounds of the model.                                                    *)
(***************************************************************************)
MaxQ == 6
MaxArg == 6
MaxBase == 5
MaxExp == 5
MaxMod == 6
MaxCalls == 2
MaxAuthId == 2
MaxY == 3
MaxCS == 3

(***************************************************************************)
(* BigUint arithmetic as used by lib.rs.                                   *)
(***************************************************************************)
Abort == -1

\* BigUint - BigUint: panics when the subtrahend is larger.
USub(a, b) ==
    IF a = Abort \/ b = Abort THEN Abort
    ELSE IF a >= b THEN a - b ELSE Abort

\* BigUint * BigUint.
UMul(a, b) ==
    IF a = Abort \/ b = Abort THEN Abort ELSE a * b

\* BigUint::modpow: n^e mod m by square and multiply; panics on m = 0.
RECURSIVE modpow(_, _, _)
modpow(n, e, m) ==
    IF n = Abort \/ e = Abort \/ m = Abort THEN Abort
    ELSE IF m = 0 THEN Abort
    ELSE IF e = 0 THEN 1 % m
    ELSE LET h == modpow(n, e \div 2, m)
         IN  IF e % 2 = 0 THEN (h * h) % m ELSE (h * h * n) % m

\* A plausible slip: the exponent-zero shortcut returns 1 without reducing it.
exponentiate_unreduced(n, exponent, modulus) ==
    IF modulus = 0 THEN Abort
    ELSE IF exponent = 0 THEN 1
    ELSE modpow(n, exponent, modulus)

\* ZKP::exponentiate
exponentiate(n, exponent, modulus) == modpow(n, exponent, modulus)

\* A plausible slip: the sign branch is dropped and k - c*x is always computed.
solve_unbranched(z, k, c, x) ==
    modpow(USub(k, UMul(c, x)), 1, z.q)

\* A plausible slip: the second branch forgets to reduce c*x - k modulo q.
solve_unreduced(z, k, c, x) ==
    IF k >= UMul(c, x)
    THEN modpow(USub(k, UMul(c, x)), 1, z.q)
    ELSE USub(z.q, USub(UMul(c, x), k))

\* A plausible slip: the second branch returns the residue of c*x - k itself.
solve_unnegated(z, k, c, x) ==
    IF k >= UMul(c, x)
    THEN modpow(USub(k, UMul(c, x)), 1, z.q)
    ELSE modpow(USub(UMul(c, x), k), 1, z.q)

\* ZKP::solve
solve(z, k, c, x) ==
    IF k >= UMul(c, x)
    THEN modpow(USub(k, UMul(c, x)), 1, z.q)
    ELSE USub(z.q, modpow(USub(UMul(c, x), k), 1, z.q))

\* A plausible slip: the two conditions are joined with || instead of &&.
verify_either(z, r1, r2, y1, y2, c, s) ==
    LET cond1 == r1 = modpow(UMul(modpow(z.alpha, s, z.p), modpow(y1, c, z.p)), 1, z.p)
        cond2 == r2 = modpow(UMul(modpow(z.beta, s, z.p), modpow(y2, c, z.p)), 1, z.p)
    IN  IF z.p = 0 THEN Abort ELSE cond1 \/ cond2

\* A plausible slip: the public values are not raised to the challenge c.
verify_no_challenge(z, r1, r2, y1, y2, c, s) ==
    LET cond1 == r1 = modpow(UMul(modpow(z.alpha, s, z.p), y1), 1, z.p)
        cond2 == r2 = modpow(UMul(modpow(z.beta, s, z.p), y2), 1, z.p)
    IN  IF z.p = 0 THEN Abort ELSE cond1 /\ cond2

\* ZKP::verify
verify(z, r1, r2, y1, y2, c, s) ==
    LET cond1 == r1 = modpow(UMul(modpow(z.alpha, s, z.p), modpow(y1, c, z.p)), 1, z.p)
        cond2 == r2 = modpow(UMul(modpow(z.beta, s, z.p), modpow(y2, c, z.p)), 1, z.p)
    IN  IF z.p = 0 THEN Abort ELSE cond1 /\ cond2

\* ZKP::generate_rand_below: any value of [0, bound).
generate_rand_below(bound) == 0 .. (bound - 1)

(***************************************************************************)
(* Parameter sets.                                                         *)
(***************************************************************************)
\* The toy group of test_toy_example: ZKP{p, q, alpha, beta}.
Toy == [p |-> 23, q |-> 11, alpha |-> 4, beta |-> 9]

\* The toy group with beta derived as in test_1024_bit_constants:
\* beta = alpha^i mod p for a random i below q ("alpha^i is also a generator").
TestSets ==
    { [p |-> Toy.p, q |-> Toy.q, alpha |-> Toy.alpha,
       beta |-> modpow(Toy.alpha, i, Toy.p)] : i \in generate_rand_below(Toy.q) }

\* ZKP values with an arbitrary q: the struct is built without validation.
SolveSets ==
    { [p |-> Toy.p, q |-> qq, alpha |-> Toy.alpha, beta |-> Toy.beta] : qq \in 0 .. MaxQ }

NoCall == [op |-> "none"]

NoTest ==
    [pc |-> "new", x |-> 0, k |-> 0, c |-> 0, y1 |-> 0, y2 |-> 0, r1 |-> 0, r2 |-> 0,
     s |-> 0, result |-> FALSE, x_fake |-> 0, s_fake |-> 0, result_fake |-> FALSE]

(***************************************************************************)
(* Single calls of the public functions of ZKP, on arbitrary arguments.    *)
(* Each behaviour makes one call; call holds its arguments and its return  *)
(* value.                                                                  *)
(***************************************************************************)
ExponentiateCall ==
    /\ call.op = "none"
    /\ \E n \in 0 .. MaxBase, e \in 0 .. MaxExp, m \in 0 .. MaxMod :
           /\ call' = [op |-> "exponentiate", n |-> n, exponent |-> e, modulus |-> m,
                       ret |-> exponentiate(n, e, m)]
    /\ UNCHANGED <<zkp, t, log>>

SolveCall ==
    /\ call.op = "none"
    /\ \E k \in 0 .. MaxArg, c \in 0 .. MaxArg, x \in 0 .. MaxArg :
           /\ call' = [op |-> "solve", k |-> k, c |-> c, x |-> x,
                       ret |-> solve(zkp, k, c, x)]
    /\ UNCHANGED <<zkp, t, log>>

VerifyCall ==
    /\ call.op = "none"
    /\ \E r1 \in 0 .. (zkp.p - 1), r2 \in 0 .. (zkp.p - 1),
          y1 \in 0 .. MaxY, y2 \in 0 .. MaxY, c \in 0 .. MaxCS, s \in 0 .. MaxCS :
           /\ call' = [op |-> "verify", r1 |-> r1, r2 |-> r2, y1 |-> y1, y2 |-> y2,
                       c |-> c, s |-> s,
                       ret |-> verify(zkp, r1, r2, y1, y2, c, s)]
    /\ UNCHANGED <<zkp, t, log>>

InitExp == zkp = Toy /\ call = NoCall /\ t = NoTest /\ log = <<>>
SpecExp == InitExp /\ [][ExponentiateCall]_vars

InitSolve == zkp \in SolveSets /\ call = NoCall /\ t = NoTest /\ log = <<>>
SpecSolve == InitSolve /\ [][SolveCall]_vars

InitVerify == zkp = Toy /\ call = NoCall /\ t = NoTest /\ log = <<>>
SpecVerify == InitVerify /\ [][VerifyCall]_vars

(***************************************************************************)
(* One protocol round, as the tests of lib.rs run it: sample x, k, c below *)
(* q, commit, solve, verify, then answer again from a wrong secret.        *)
(***************************************************************************)
Sample ==
    /\ t.pc = "new"
    /\ \E x \in generate_rand_below(zkp.q), k \in generate_rand_below(zkp.q),
          c \in generate_rand_below(zkp.q) :
          t' = [t EXCEPT !.pc = "sampled", !.x = x, !.k = k, !.c = c]
    /\ UNCHANGED <<zkp, call, log>>

Commit ==
    /\ t.pc = "sampled"
    /\ t' = [t EXCEPT !.pc = "committed",
                      !.y1 = exponentiate(zkp.alpha, t.x, zkp.p),
                      !.y2 = exponentiate(zkp.beta, t.x, zkp.p),
                      !.r1 = exponentiate(zkp.alpha, t.k, zkp.p),
                      !.r2 = exponentiate(zkp.beta, t.k, zkp.p)]
    /\ UNCHANGED <<zkp, call, log>>

Respond ==
    /\ t.pc = "committed"
    /\ t' = [t EXCEPT !.pc = "solved", !.s = solve(zkp, t.k, t.c, t.x)]
    /\ UNCHANGED <<zkp, call, log>>

Check ==
    /\ t.pc = "solved"
    /\ t' = [t EXCEPT !.pc = "verified",
                      !.result = verify(zkp, t.r1, t.r2, t.y1, t.y2, t.c, t.s)]
    /\ UNCHANGED <<zkp, call, log>>

Fake ==
    /\ t.pc = "verified"
    /\ \E xf \in generate_rand_below(zkp.q) \ {t.x} :
          LET sf == solve(zkp, t.k, t.c, xf)
          IN  t' = [t EXCEPT !.pc = "faked", !.x_fake = xf, !.s_fake = sf,
                             !.result_fake = verify(zkp, t.r1, t.r2, t.y1, t.y2, t.c, sf)]
    /\ UNCHANGED <<zkp, call, log>>

InitTest == zkp \in TestSets /\ call = NoCall /\ t = NoTest /\ log = <<>>
NextTest == Sample \/ Commit \/ Respond \/ Check \/ Fake
SpecTest == InitTest /\ [][NextTest]_vars

(***************************************************************************)
(* The authentication service of server.rs.  AuthImpl is a unit struct: it *)
(* has no registration or session field, and each of its three handlers is *)
(* todo!(), which panics when the handler is called.  log is the sequence  *)
(* of requests the service has received, each with its outcome.            *)
(***************************************************************************)
Users == {"alice", "bob"}

\* todo!(): panics with "not yet implemented".
todo == "panic: not yet implemented"

\* AuthImpl::register
register(user_id, y1, y2) == todo

\* AuthImpl::create_authentication_challenge
create_authentication_challenge(user_id, r1, r2) == todo

\* AuthImpl::verify_authentication
verify_authentication(auth_id, s) == todo

Register ==
    /\ Len(log) < MaxCalls
    /\ \E u \in Users, x \in generate_rand_below(Toy.q) :
          LET y1 == exponentiate(Toy.alpha, x, Toy.p)
              y2 == exponentiate(Toy.beta, x, Toy.p)
          IN  log' = Append(log, [op |-> "register", user_id |-> u, y1 |-> y1, y2 |-> y2,
                                  resp |-> register(u, y1, y2)])
    /\ UNCHANGED <<zkp, call, t>>

CreateAuthenticationChallenge ==
    /\ Len(log) < MaxCalls
    /\ \E u \in Users, k \in generate_rand_below(Toy.q) :
          LET r1 == exponentiate(Toy.alpha, k, Toy.p)
              r2 == exponentiate(Toy.beta, k, Toy.p)
          IN  log' = Append(log, [op |-> "create_authentication_challenge", user_id |-> u,
                                  r1 |-> r1, r2 |-> r2,
                                  resp |-> create_authentication_challenge(u, r1, r2)])
    /\ UNCHANGED <<zkp, call, t>>

VerifyAuthentication ==
    /\ Len(log) < MaxCalls
    /\ \E a \in 1 .. MaxAuthId, s \in 0 .. Toy.q :
          log' = Append(log, [op |-> "verify_authentication", auth_id |-> a, s |-> s,
                              resp |-> verify_authentication(a, s)])
    /\ UNCHANGED <<zkp, call, t>>

InitServer == zkp = Toy /\ call = NoCall /\ t = NoTest /\ log = <<>>
NextServer == Register \/ CreateAuthenticationChallenge \/ VerifyAuthentication
SpecServer == InitServer /\ [][NextServer]_vars

(***************************************************************************)
(* Properties.                                                             *)
(***************************************************************************)

\* C1 (completeness): once an honest round has been verified, that is
\* y1 = alpha^x, y2 = beta^x, r1 = alpha^k, r2 = beta^k (all mod p) and
\* s = solve(k, c, x) for x, k, c below q, verify has returned true; this
\* includes the rounds of both branches of solve and those where c*x - k
\* is a non-zero multiple of q.
Completeness ==
    t.pc \in {"verified", "faked"} => t.result = TRUE

\* An honest round accepted with k < c*x and c*x - k a non-zero multiple of q.
CompletenessWitness ==
    /\ zkp = Toy
    /\ t.pc = "verified"
    /\ t.k < t.c * t.x
    /\ (t.c * t.x - t.k) % zkp.q = 0
    /\ t.s = zkp.q
    /\ t.result = TRUE

\* C2 (soundness): in the toy group, a response solve(k, c, x') computed
\* from a secret x' # x is rejected by verify for every challenge c in [1, q).
Soundness ==
    (zkp = Toy /\ t.pc = "faked" /\ t.c \in 1 .. (zkp.q - 1)) => t.result_fake = FALSE

\* The scenario of test_toy_example: x = 6, k = 7, c = 4, x' = 7 is rejected.
SoundnessWitness ==
    /\ zkp = Toy
    /\ t.pc = "faked"
    /\ t.x = 6 /\ t.k = 7 /\ t.c = 4 /\ t.x_fake = 7
    /\ t.r1 = 8 /\ t.r2 = 4 /\ t.y1 = 2 /\ t.y2 = 3
    /\ t.result_fake = FALSE

\* C3: for q >= 1, solve(k, c, x) returns the unique value of [0, q)
\* congruent to k - c*x modulo q.
SolveIsResidue ==
    (call.op = "solve" /\ zkp.q >= 1) =>
        /\ call.ret \in 0 .. (zkp.q - 1)
        /\ call.ret = (call.k - call.c * call.x) % zkp.q

\* b^e over the naturals, by repeated multiplication (b^0 = 1).
RECURSIVE Pow(_, _)
Pow(b, e) == IF e = 0 THEN 1 ELSE b * Pow(b, e - 1)

\* C4: verify returns a boolean, and it returns true exactly when both
\* r1 = (alpha^s * y1^c) mod p and r2 = (beta^s * y2^c) mod p hold; when one
\* equation or none holds the result is the single value false.
VerifyIffBoth ==
    call.op = "verify" =>
        LET eq1 == call.r1 = (Pow(zkp.alpha, call.s) * Pow(call.y1, call.c)) % zkp.p
            eq2 == call.r2 = (Pow(zkp.beta, call.s) * Pow(call.y2, call.c)) % zkp.p
        IN  /\ call.ret \in BOOLEAN
            /\ call.ret = (eq1 /\ eq2)

\* A call where exactly the first equation holds, answered false.
VerifyIffBothWitness ==
    /\ call.op = "verify"
    /\ call.r1 = (Pow(zkp.alpha, call.s) * Pow(call.y1, call.c)) % zkp.p
    /\ call.r2 # (Pow(zkp.beta, call.s) * Pow(call.y2, call.c)) % zkp.p
    /\ call.c > 0 /\ call.s > 0
    /\ call.ret = FALSE

\* C5 (no underflow): for q >= 1 and all k, c, x >= 0, solve returns a value:
\* no unsigned subtraction of the call has a subtrahend above its minuend.
SolveNeverAborts ==
    (call.op = "solve" /\ zkp.q >= 1) => call.ret \in Nat

\* A call of the second branch whose c*x - k exceeds q, which returned a value.
SolveNeverAbortsWitness ==
    /\ call.op = "solve"
    /\ zkp.q >= 1
    /\ call.k < call.c * call.x
    /\ call.c * call.x - call.k > zkp.q
    /\ call.ret \in Nat

\* C6, as stated: exponentiate(base, 0, modulus) = 1 for every modulus > 0.
ExponentZeroIsOne ==
    (call.op = "exponentiate" /\ call.exponent = 0 /\ call.modulus > 0) => call.ret = 1

\* C6, amended: exponentiate(base, 0, modulus) is 1 reduced modulo modulus,
\* that is 1 for every modulus > 1 and 0 for modulus 1, whatever the base.
ExponentZeroIsOneModM ==
    (call.op = "exponentiate" /\ call.exponent = 0 /\ call.modulus > 0) =>
        call.ret = (IF call.modulus = 1 THEN 0 ELSE 1)

\* exponentiate(0, 0, 1) has returned 0.
ExponentZeroWitness ==
    /\ call.op = "exponentiate"
    /\ call.n = 0 /\ call.exponent = 0 /\ call.modulus = 1
    /\ call.ret = 0

\* C7 (session single-use): of the verify_authentication calls naming one
\* auth_id, in any order, at most one finds the session; every other call
\* returns UnknownSession.
SessionSingleUse ==
    \A a \in 1 .. MaxAuthId :
        Cardinality({ i \in 1 .. Len(log) :
                        /\ log[i].op = "verify_authentication"
                        /\ log[i].auth_id = a
                        /\ log[i].resp # "UnknownSession" }) <= 1

\* C9: the first register call for a user_id succeeds, and every later
\* register call for the same user_id fails with AlreadyRegistered.
RegisterOnce ==
    \A j \in 1 .. Len(log) :
        log[j].op = "register" =>
            LET earlier == \E i \in 1 .. (j - 1) :
                               log[i].op = "register" /\ log[i].user_id = log[j].user_id
            IN  log[j].resp = (IF earlier THEN "AlreadyRegistered" ELSE "Ok")

\* C10: for q >= 1 the value solve returns is congruent to k - c*x modulo q
\* and lies in [0, q]: in [0, q) when k >= c*x and in [1, q] when k < c*x.
SolveRange ==
    (call.op = "solve" /\ zkp.q >= 1) =>
        /\ call.ret \in 0 .. zkp.q
        /\ (call.ret - (call.k - call.c * call.x)) % zkp.q = 0
        /\ (call.k >= call.c * call.x => call.ret < zkp.q)
        /\ (call.k < call.c * call.x => call.ret >= 1)

\* A call that returned q itself: c*x - k is a non-zero multiple of q.
SolveRangeWitness ==
    /\ call.op = "solve"
    /\ zkp.q >= 2
    /\ call.k < call.c * call.x
    /\ call.ret = zkp.q

====
